---- MODULE Spec2Model ----
(***************************************************************************)
(* A model of rPTMDetermine's Spectrum class (mass_spectrum.py).           *)
(*                                                                         *)
(* Numbers.  The program stores m/z values and intensities as floats.  The *)
(* model stores every number as an exact rational <<n, d>> in lowest terms *)
(* with d >= 1, so that the division of normalize, the mean of centroid    *)
(* and the comparisons against 0.1 and 100 are computed exactly.           *)
(*                                                                         *)
(* Indices.  Peak indices are 0-based, as in the program: the peak with    *)
(* index i is p[i + 1] of the TLA+ sequence p.                             *)
(***************************************************************************)
EXTENDS Integers, Sequences, FiniteSets, TLC

(***************************************************************************)
(* Bounds of the model.                                                    *)
(***************************************************************************)
MaxLen == 3            \* longest peak list given to the constructor
MaxPeaksPerWindow == 2 \* denoise is called with max_peaks_per_window in 1..this
MaxSetItems == 1       \* item assignments made to one Spectrum

(***************************************************************************)
(* Rational arithmetic.                                                    *)
(***************************************************************************)
Abs(n) == IF n < 0 THEN -n ELSE n

RECURSIVE Gcd(_, _)
Gcd(a, b) == IF b = 0 THEN a ELSE Gcd(b, a % b)

\* the rational n/d (d # 0) in lowest terms with a positive denominator
Rat(n, d) ==
    LET g == Gcd(Abs(n), Abs(d))
        s == IF d < 0 THEN -1 ELSE 1
    IN  <<(s * n) \div g, (s * d) \div g>>

Min(a, b) == IF a < b THEN a ELSE b

RInt(n) == <<n, 1>>
RAdd(a, b) == Rat(a[1] * b[2] + b[1] * a[2], a[2] * b[2])
RSub(a, b) == Rat(a[1] * b[2] - b[1] * a[2], a[2] * b[2])
RMul(a, b) == Rat(a[1] * b[1], a[2] * b[2])
RDiv(a, b) == Rat(a[1] * b[2], a[2] * b[1])
RLe(a, b) == a[1] * b[2] <= b[1] * a[2]
RLt(a, b) == a[1] * b[2] < b[1] * a[2]
RAbs(a) == <<Abs(a[1]), a[2]>>
\* Python's int() of a float: truncation toward zero
RTrunc(a) == IF a[1] >= 0 THEN a[1] \div a[2] ELSE -((-a[1]) \div a[2])

RECURSIVE RSum(_)
RSum(s) == IF s = <<>> THEN RInt(0) ELSE RAdd(Head(s), RSum(Tail(s)))

(***************************************************************************)
(* Inputs.  m/z values are given in twentieths of a Dalton: 114, 114.1    *)
(* and 314.  114 and 114.1 lie exactly 0.1 apart (on centroid's threshold, *)
(* and 114.1 is the first reporter mass), 114 and 314 exactly 200 apart    *)
(* (on the boundaries of denoise's 100 Da windows).  Intensities are 1     *)
(* and 2.                                                                  *)
(***************************************************************************)
MzTicks == {2280, 2282, 6280}
MzInputs == {Rat(t, 20) : t \in MzTicks}
IntensityInputs == {RInt(1), RInt(2)}
PeakInputs == {<<m, i>> : m \in MzInputs, i \in IntensityInputs}

RECURSIVE SeqsOfLen(_, _)
SeqsOfLen(S, n) ==
    IF n = 0 THEN {<<>>}
    ELSE {Append(s, x) : s \in SeqsOfLen(S, n - 1), x \in S}

SeqsUpTo(S, n) == UNION {SeqsOfLen(S, k) : k \in 0..n}

(***************************************************************************)
(* numpy arrays, as far as the constructor looks at them: the shape and,   *)
(* for a two-dimensional array, the rows.                                  *)
(***************************************************************************)
\* np.array of a list of n >= 1 rows of (mz, intensity); np.array([]) has
\* the one-dimensional shape (0,)
ArrayOfRows(rows) ==
    IF rows = <<>> THEN [shape |-> <<0>>, data |-> <<>>]
    ELSE [shape |-> <<Len(rows), 2>>, data |-> rows]

\* np.array of the list [mz list, intensity list] of the same peaks
ArrayOfCols(rows) ==
    [shape |-> <<2, Len(rows)>>,
     data |-> <<[j \in 1..Len(rows) |-> rows[j][1]],
                [j \in 1..Len(rows) |-> rows[j][2]]>>]

\* ndarray.T of a two-dimensional array
Transpose(a) ==
    [shape |-> <<a.shape[2], a.shape[1]>>,
     data |-> [j \in 1..a.shape[2] |->
                  [i \in 1..a.shape[1] |-> a.data[i][j]]]]

(***************************************************************************)
(* Spectrum._mz_sort: self._peaks[self._peaks[:, 0].argsort()].  argsort   *)
(* uses numpy's default sort kind, which is not stable: the order of peaks *)
(* of equal m/z is whatever the build's sort produces.  mz_sort(p) is the  *)
(* set of all m/z-ascending arrangements of p.                             *)
(***************************************************************************)
RemoveAt(s, i) == SubSeq(s, 1, i - 1) \o SubSeq(s, i + 1, Len(s))

IsMinMz(s, i) == \A j \in 1..Len(s) : RLe(s[i][1], s[j][1])

RECURSIVE mz_sort(_)
mz_sort(p) ==
    IF p = <<>> THEN {<<>>}
    ELSE UNION {{<<p[i]>> \o q : q \in mz_sort(RemoveAt(p, i))} :
                    i \in {k \in 1..Len(p) : IsMinMz(p, k)}}

(***************************************************************************)
(* Spectrum.__init__: the set of peak arrays the constructor can leave in  *)
(* self._peaks for the array a.  A one-dimensional array makes _mz_sort    *)
(* raise IndexError, and no Spectrum is constructed.                       *)
(***************************************************************************)
InitRaises(a) == Len(a.shape) # 2

Oriented(a) == IF a.shape[1] = 2 THEN Transpose(a) ELSE a

SpectrumInit(a) == mz_sort(Oriented(a).data)

(***************************************************************************)
(* State.                                                                  *)
(*   peaks     self._peaks of the Spectrum, a sequence of <<mz, intensity>>*)
(*   call      the operation that ran last and its inputs; op = "none"     *)
(*             once the caller has taken the result                        *)
(*   new_peaks the index list returned by denoise                          *)
(*   denoised  the peaks of the Spectrum returned by denoise               *)
(*   windows   what each iteration of denoise's window loop did            *)
(*   nset      the number of item assignments made so far                  *)
(***************************************************************************)
VARIABLES peaks, call, new_peaks, denoised, windows, nset

(***************************************************************************)
(* The other slots of the Spectrum, and those of the Spectrum returned by  *)
(* denoise.                                                                *)
(*   prec_mz         self.prec_mz, a rational                              *)
(*   charge          self.charge: None or Some(n)                          *)
(*   retention_time  self.retention_time: None or Some(t), t a rational    *)
(*   denoised_slots  prec_mz, charge and retention_time of the Spectrum    *)
(*                   returned by denoise; None when there is none          *)
(***************************************************************************)
VARIABLES prec_mz, charge, retention_time, denoised_slots

(***************************************************************************)
(* State of a PTMDB object (readers/ptmdb.py).                             *)
(*   catalog   the modification records of the Unimod XML file, in file    *)
(*             order                                                       *)
(*   mods      the rows of the table mods, in the order they were inserted *)
(*   status    "building" while __init__ runs, "ready" once it has         *)
(*             returned the object, "failed" if it raised; "absent" where  *)
(*             no PTMDB is constructed                                     *)
(*   cache     the lru_cache of each memoized method, most recently used   *)
(*             entry first                                                 *)
(*   lookup    the lookup that ran last: method, arguments and outcome     *)
(*   nlookups  the number of lookups made so far                           *)
(* State of a call of Validator._results_to_unmod_psms (validator.py).     *)
(*   vcall     the arguments of the call                                   *)
(*   psms      the PSMContainer it returned                                *)
(***************************************************************************)
VARIABLES catalog, mods, status, cache, lookup, nlookups, vcall, psms

precursor_vars == <<prec_mz, charge, retention_time>>

spectrum_vars ==
    <<peaks, call, new_peaks, denoised, windows, nset, precursor_vars,
      denoised_slots>>

ptmdb_vars == <<catalog, mods, status, cache, lookup, nlookups>>

validator_vars == <<vcall, psms>>

vars == <<spectrum_vars, ptmdb_vars, validator_vars>>

\* an attribute or column that may be missing: None, or Some(v) for the
\* value v
None == <<>>

Some(v) == <<v>>

NoLookup == [op |-> "none", key |-> <<>>, raises |-> "", result |-> None,
             hit |-> FALSE]

EmptyCache == [get_mass |-> <<>>, get_by_id |-> <<>>, get_formula |-> <<>>,
               get_name |-> <<>>]

\* no PTMDB is constructed
NoPTMDB ==
    /\ catalog = <<>>
    /\ mods = <<>>
    /\ status = "absent"
    /\ cache = EmptyCache
    /\ lookup = NoLookup
    /\ nlookups = 0

NoVCall == [op |-> "none", search_res |-> <<>>, allowed_mods |-> {}]

\* _results_to_unmod_psms is not called
NoValidator == vcall = NoVCall /\ psms = <<>>

NoArgs == [rows |-> <<>>, layout |-> "", pre |-> <<>>, key |-> 0,
           value |-> <<>>, tol |-> RInt(0), assigned_peaks |-> <<>>,
           max_peaks_per_window |-> 0, raises |-> FALSE, result |-> <<>>]

Call(op, args) == [op |-> op] @@ args @@ NoArgs

Layouts == {"peaks_x_2", "2_x_peaks"}

ArrayOf(rows, layout) ==
    IF layout = "peaks_x_2" THEN ArrayOfRows(rows) ELSE ArrayOfCols(rows)

\* prec_mz, charge and retention_time as __init__ stores them (lines 59-61)
Slots(p, c, t) == [prec_mz |-> p, charge |-> c, retention_time |-> t]

\* the precursor of the spectra whose peaks are explored
DefaultPrecursor == Slots(Rat(5003, 10), Some(2), Some(Rat(1205, 10)))

Init ==
    \E rows \in SeqsUpTo(PeakInputs, MaxLen), layout \in Layouts :
        /\ ~InitRaises(ArrayOf(rows, layout))
        /\ peaks \in SpectrumInit(ArrayOf(rows, layout))
        /\ call = Call("init", [rows |-> rows, layout |-> layout])
        /\ new_peaks = <<>>
        /\ denoised = <<>>
        /\ windows = <<>>
        /\ nset = 0
        /\ prec_mz = DefaultPrecursor.prec_mz
        /\ charge = DefaultPrecursor.charge
        /\ retention_time = DefaultPrecursor.retention_time
        /\ denoised_slots = None
        /\ NoPTMDB
        /\ NoValidator

Idle == call.op = "none"

\* the caller takes the result of the last operation
Return ==
    /\ ~Idle
    /\ call' = Call("none", <<>>)
    /\ new_peaks' = <<>>
    /\ denoised' = <<>>
    /\ denoised_slots' = None
    /\ windows' = <<>>
    /\ UNCHANGED <<peaks, nset, precursor_vars>>
    /\ UNCHANGED <<ptmdb_vars, validator_vars>>

(***************************************************************************)
(* Spectrum.__setitem__: self._peaks[key] = value, for a row index key and *)
(* a row value.  An index outside the array raises IndexError.  The rows   *)
(* assigned are one of the highest and one of the lowest input m/z.        *)
(***************************************************************************)
SetItemValues == {<<Rat(6280, 20), RInt(1)>>, <<Rat(2280, 20), RInt(2)>>}

SetItem ==
    /\ Idle
    /\ nset < MaxSetItems
    /\ nset' = nset + 1
    /\ \E key \in 0..(Len(peaks) - 1), value \in SetItemValues :
        /\ peaks' = [peaks EXCEPT ![key + 1] = value]
        /\ call' = Call("setitem", [pre |-> peaks, key |-> key,
                                    value |-> value])
    /\ UNCHANGED <<new_peaks, denoised, windows, precursor_vars,
                    denoised_slots>>
    /\ UNCHANGED <<ptmdb_vars, validator_vars>>

(***************************************************************************)
(* Spectrum.max_intensity and Spectrum.normalize.  max() of an empty array *)
(* raises ValueError, which leaves the spectrum as it was.                 *)
(***************************************************************************)
\* self.intensity.max() of a spectrum without peaks
MaxRaises(p) == Len(p) = 0

RECURSIVE RMax(_)
RMax(s) ==
    IF Len(s) = 1 THEN s[1]
    ELSE LET m == RMax(Tail(s)) IN IF RLt(s[1], m) THEN m ELSE s[1]

intensity(p) == [i \in 1..Len(p) |-> p[i][2]]

mz(p) == [i \in 1..Len(p) |-> p[i][1]]

max_intensity(p) == RMax(intensity(p))

\* normalize with every intensity divided by the total intensity instead
\* of the base peak's
normalize_to_total(p) ==
    [i \in 1..Len(p) |-> <<p[i][1], RDiv(p[i][2], RSum(intensity(p)))>>]

normalize(p) ==
    [i \in 1..Len(p) |-> <<p[i][1], RDiv(p[i][2], max_intensity(p))>>]

Normalize ==
    /\ Idle
    /\ IF MaxRaises(peaks)
       THEN /\ peaks' = peaks
            /\ call' = Call("normalize", [pre |-> peaks, raises |-> TRUE])
       ELSE /\ peaks' = normalize(peaks)
            /\ call' = Call("normalize", [pre |-> peaks])
    /\ UNCHANGED <<new_peaks, denoised, windows, nset, precursor_vars,
                    denoised_slots>>
    /\ UNCHANGED <<ptmdb_vars, validator_vars>>

MaxIntensity ==
    /\ Idle
    /\ call' = IF MaxRaises(peaks)
               THEN Call("max_intensity", [pre |-> peaks, raises |-> TRUE])
               ELSE Call("max_intensity",
                         [pre |-> peaks, result |-> max_intensity(peaks)])
    /\ UNCHANGED <<peaks, new_peaks, denoised, windows, nset,
                    precursor_vars, denoised_slots>>
    /\ UNCHANGED <<ptmdb_vars, validator_vars>>

(***************************************************************************)
(* Spectrum.centroid.  mz_diffs = np.diff(self.mz) has one entry less than *)
(* the spectrum has peaks; mz_diff(p, i) is mz_diffs[i].                   *)
(***************************************************************************)
CentroidThreshold == Rat(1, 10)

mz_diff(p, i) == RSub(p[i + 2][1], p[i + 1][1])

\* the inner while loop: the index of the last peak of the cluster that
\* starts at idx
RECURSIVE ClusterEnd(_, _)
ClusterEnd(p, idx) ==
    IF idx + 1 = Len(p) - 1 THEN idx + 1
    ELSE IF RLe(mz_diff(p, idx + 1), CentroidThreshold)
         THEN ClusterEnd(p, idx + 1)
         ELSE idx + 1

\* MaxByIntensity with the tie between peaks of the largest intensity going
\* to the last of them
RECURSIVE MaxByIntensityLast(_)
MaxByIntensityLast(c) ==
    IF Len(c) = 1 THEN c[1]
    ELSE LET m == MaxByIntensityLast(Tail(c))
         IN  IF RLe(c[1][2], m[2]) THEN m ELSE c[1]

\* max(peak_cluster, key=operator.itemgetter(1)): the first peak of the
\* largest intensity
RECURSIVE MaxByIntensity(_)
MaxByIntensity(c) ==
    IF Len(c) = 1 THEN c[1]
    ELSE LET m == MaxByIntensity(Tail(c))
         IN  IF RLt(c[1][2], m[2]) THEN m ELSE c[1]

\* the peak appended for a cluster
ClusterPeak(c) ==
    IF Cardinality({c[i][2] : i \in 1..Len(c)}) = 1
    THEN <<RDiv(RSum(mz(c)), RInt(Len(c))), c[1][2]>>
    ELSE MaxByIntensity(c)

\* the outer while loop, from index idx with the list centroided so far
RECURSIVE CentroidLoop(_, _, _)
CentroidLoop(p, idx, centroided) ==
    IF idx >= Len(p) THEN centroided
    ELSE IF idx >= Len(p) - 1 THEN Append(centroided, p[idx + 1])
    ELSE IF RLt(CentroidThreshold, mz_diff(p, idx))
         THEN CentroidLoop(p, idx + 1, Append(centroided, p[idx + 1]))
         ELSE LET last == ClusterEnd(p, idx)
                  peak_cluster == SubSeq(p, idx + 1, last + 1)
              IN  CentroidLoop(p, last + 1,
                               Append(centroided, ClusterPeak(peak_cluster)))

centroid(p) == IF Len(p) <= 1 THEN p ELSE CentroidLoop(p, 0, <<>>)

\* centroid returns self, so that a caller can centroid its result again
Centroid ==
    /\ (Idle \/ call.op = "centroid")
    /\ peaks' = centroid(peaks)
    /\ call' = Call("centroid", [pre |-> peaks])
    /\ UNCHANGED <<new_peaks, denoised, windows, nset, precursor_vars,
                    denoised_slots>>
    /\ UNCHANGED <<ptmdb_vars, validator_vars>>

(***************************************************************************)
(* Spectrum.remove_itraq.  ITRAQ_MASSES comes from the constants module.   *)
(***************************************************************************)
ITRAQ_MASSES == {Rat(1141, 10), Rat(1151, 10), Rat(1161, 10), Rat(1171, 10)}

DefaultItraqTol == Rat(1, 10)

TolInputs == {Rat(1, 20), DefaultItraqTol}

\* FarFromItraq with a peak at exactly tol from a reporter mass kept
FarFromItraqInclusive(peak, tol) ==
    \A r \in ITRAQ_MASSES : RLe(tol, RAbs(RSub(peak[1], r)))

\* one row of the boolean mask: the peak is farther than tol from every
\* reporter mass
FarFromItraq(peak, tol) ==
    \A r \in ITRAQ_MASSES : RLt(tol, RAbs(RSub(peak[1], r)))

remove_itraq(p, tol) ==
    LET F[i \in 0..Len(p)] ==
            IF i = 0 THEN <<>>
            ELSE IF FarFromItraq(p[i], tol) THEN Append(F[i - 1], p[i])
                 ELSE F[i - 1]
    IN  F[Len(p)]

RemoveItraq ==
    /\ Idle
    /\ \E tol \in TolInputs :
        /\ peaks' = remove_itraq(peaks, tol)
        /\ call' = Call("remove_itraq", [pre |-> peaks, tol |-> tol])
    /\ UNCHANGED <<new_peaks, denoised, windows, nset, precursor_vars,
                    denoised_slots>>
    /\ UNCHANGED <<ptmdb_vars, validator_vars>>

(***************************************************************************)
(* Spectrum.denoise.                                                       *)
(***************************************************************************)
WindowWidth == 100

\* n_windows = int((self._peaks[-1][0] - self._peaks[0][0]) / 100.) + 1
n_windows(p) ==
    RTrunc(RDiv(RSub(p[Len(p)][1], p[1][1]), RInt(WindowWidth))) + 1

\* max_mass = self._peaks[0][0] + (window + 1) * 100.
max_mass(p, window) == RAdd(p[1][1], RInt((window + 1) * WindowWidth))

\* the value of end_idx after the loop "for end_idx in range(start_idx,
\* npeaks)": the index at which the loop breaks, or the last index of the
\* range when it does not break (start_idx < npeaks in every iteration)
FindEndIdx(p, start_idx, limit) ==
    LET over == {i \in start_idx..(Len(p) - 1) : RLt(limit, p[i + 1][1])}
    IN  IF over = {} THEN Len(p) - 1
        ELSE CHOOSE i \in over : \A j \in over : i <= j

\* sorted(idxs, key=lambda ii: self._peaks[ii][1], reverse=True): a stable
\* sort, indices of equal intensity keep their order
InsertDesc(p, sorted, x) ==
    LET ahead == {k \in 1..Len(sorted) :
                      RLe(p[x + 1][2], p[sorted[k] + 1][2])}
        n == Cardinality(ahead)
    IN  SubSeq(sorted, 1, n) \o <<x>> \o SubSeq(sorted, n + 1, Len(sorted))

RECURSIVE SortedDesc(_, _)
SortedDesc(p, idxs) ==
    IF idxs = <<>> THEN <<>>
    ELSE InsertDesc(p, SortedDesc(p, SubSeq(idxs, 1, Len(idxs) - 1)),
                    idxs[Len(idxs)])

Range(a, b) == [k \in 1..(b - a) |-> a + k - 1]

\* sum(ion_scores[:idx])
SumScore(ion_scores, idx) ==
    Cardinality({k \in 1..idx : ion_scores[k]})

\* window_peaks[:sum_scores.index(max(sum_scores)) + 1]
TopPeaks(window_peaks, assigned_peaks, max_peaks_per_window) ==
    LET ion_scores == [k \in 1..Len(window_peaks) |->
                          assigned_peaks[window_peaks[k] + 1]]
        top == IF Len(ion_scores) < max_peaks_per_window
               THEN Len(ion_scores) ELSE max_peaks_per_window
        sum_scores == [idx \in 1..top |-> SumScore(ion_scores, idx)]
        best == CHOOSE k \in 1..top :
                    /\ \A j \in 1..top : sum_scores[j] <= sum_scores[k]
                    /\ \A j \in 1..(k - 1) : sum_scores[j] < sum_scores[k]
    IN  SubSeq(window_peaks, 1, best)

\* one iteration of the window loop: what it appends to new_peaks and the
\* start_idx it leaves for the next window
WindowStep(p, assigned_peaks, max_peaks_per_window, window, start_idx) ==
    LET limit == max_mass(p, window)
        end_idx == FindEndIdx(p, start_idx, limit)
        window_peaks == SortedDesc(p, Range(start_idx, end_idx))
    IN  IF end_idx = start_idx
        THEN [window |-> window, max_mass |-> limit,
              start_idx |-> start_idx, end_idx |-> end_idx,
              ranked |-> FALSE, window_peaks |-> <<>>,
              kept |-> IF RLe(p[end_idx + 1][1], limit)
                          /\ assigned_peaks[end_idx + 1]
                       THEN <<end_idx>> ELSE <<>>,
              next_start |-> start_idx]
        ELSE [window |-> window, max_mass |-> limit,
              start_idx |-> start_idx, end_idx |-> end_idx,
              ranked |-> TRUE, window_peaks |-> window_peaks,
              kept |-> TopPeaks(window_peaks, assigned_peaks,
                                max_peaks_per_window),
              next_start |-> end_idx]

\* the iterations of "for window in range(n_windows)" from window on
RECURSIVE WindowLoop(_, _, _, _, _)
WindowLoop(p, assigned_peaks, max_peaks_per_window, window, start_idx) ==
    IF window >= n_windows(p) THEN <<>>
    ELSE LET step == WindowStep(p, assigned_peaks, max_peaks_per_window,
                                window, start_idx)
         IN  <<step>> \o WindowLoop(p, assigned_peaks, max_peaks_per_window,
                                    window + 1, step.next_start)

RECURSIVE Flatten(_)
Flatten(ss) == IF ss = <<>> THEN <<>> ELSE Head(ss) \o Flatten(Tail(ss))

\* new_peaks after the loop
DenoisedIndices(steps) == Flatten([k \in 1..Len(steps) |-> steps[k].kept])

\* self._peaks[new_peaks, :]
SelectRows(p, idxs) ==
    [shape |-> <<Len(idxs), 2>>,
     data |-> [k \in 1..Len(idxs) |-> p[idxs[k] + 1]]]

AssignedInputs(n) == [1..n -> BOOLEAN]

\* retention_time: Optional[float] = None (line 44)
DefaultRetentionTime == None

DenoisedSlotsKeepTime(p, c, t) == Slots(p, c, t)

\* Spectrum(self._peaks[new_peaks, :], self.prec_mz, self.charge): the
\* retention time is not passed and takes its default
DenoisedSlots(p, c, t) == Slots(p, c, DefaultRetentionTime)

\* self._peaks[-1] raises IndexError on an empty spectrum
Denoise ==
    /\ Idle
    /\ Len(peaks) >= 1
    /\ \E assigned_peaks \in AssignedInputs(Len(peaks)),
          max_peaks_per_window \in 1..MaxPeaksPerWindow :
        LET steps == WindowLoop(peaks, assigned_peaks, max_peaks_per_window,
                                0, 0)
        IN  /\ windows' = steps
            /\ new_peaks' = DenoisedIndices(steps)
            /\ denoised' \in
                   SpectrumInit(SelectRows(peaks, DenoisedIndices(steps)))
            /\ denoised_slots' =
                   Some(DenoisedSlots(prec_mz, charge, retention_time))
            /\ call' = Call("denoise",
                            [pre |-> peaks,
                             assigned_peaks |-> assigned_peaks,
                             max_peaks_per_window |-> max_peaks_per_window])
    /\ UNCHANGED <<peaks, nset, precursor_vars>>
    /\ UNCHANGED <<ptmdb_vars, validator_vars>>

Next ==
    \/ SetItem
    \/ Normalize
    \/ MaxIntensity
    \/ Centroid
    \/ RemoveItraq
    \/ Denoise
    \/ Return

Spec == Init /\ [][Next]_vars

(***************************************************************************)
(* Spectra of every kind of precursor: prec_mz is a float, charge and      *)
(* retention_time may be None.  The peak lists are the short ones.         *)
(***************************************************************************)
PrecMzInputs == {Rat(5003, 10), Rat(7502, 10)}

ChargeInputs == {None, Some(2)}

RetentionTimeInputs == {None, Some(Rat(1205, 10))}

MaxSlotsLen == 2

InitSlots ==
    \E rows \in SeqsUpTo(PeakInputs, MaxSlotsLen), layout \in Layouts,
       p \in PrecMzInputs, c \in ChargeInputs, t \in RetentionTimeInputs :
        /\ ~InitRaises(ArrayOf(rows, layout))
        /\ peaks \in SpectrumInit(ArrayOf(rows, layout))
        /\ call = Call("init", [rows |-> rows, layout |-> layout])
        /\ new_peaks = <<>>
        /\ denoised = <<>>
        /\ windows = <<>>
        /\ nset = 0
        /\ prec_mz = Slots(p, c, t).prec_mz
        /\ charge = Slots(p, c, t).charge
        /\ retention_time = Slots(p, c, t).retention_time
        /\ denoised_slots = None
        /\ NoPTMDB
        /\ NoValidator

SpecSlots == InitSlots /\ [][Next]_vars

(***************************************************************************)
(* readers/ptmdb.py.                                                       *)
(*                                                                         *)
(* Strings.  A string is the sequence of its characters, each a string of  *)
(* length one: <<"A", " ", "b">> is "A b".  Masses and tolerances are      *)
(* integers, in a unit small enough that every mass of the catalog is      *)
(* whole.                                                                  *)
(***************************************************************************)
Digits == {"0", "1", "2", "3", "4", "5", "6", "7", "8", "9"}

UpperCase == {"A", "B", "C", "H", "O"}

LowerCase == {"a", "b", "c", "h", "o"}

\* the characters the regular expression class \w matches
WordChars == UpperCase \cup LowerCase \cup Digits \cup {"_"}

LowerChar(c) ==
    CASE c = "A" -> "a"
      [] c = "B" -> "b"
      [] c = "C" -> "c"
      [] c = "H" -> "h"
      [] c = "O" -> "o"
      [] OTHER -> c

\* str.lower()
lower(str) == [i \in 1..Len(str) |-> LowerChar(str[i])]

\* str.replace(" ", "")
replace_spaces(str) ==
    LET F[i \in 0..Len(str)] ==
            IF i = 0 THEN <<>>
            ELSE IF str[i] = " " THEN F[i - 1] ELSE Append(F[i - 1], str[i])
    IN  F[Len(str)]

DigitValue(c) ==
    CASE c = "0" -> 0 [] c = "1" -> 1 [] c = "2" -> 2 [] c = "3" -> 3
      [] c = "4" -> 4 [] c = "5" -> 5 [] c = "6" -> 6 [] c = "7" -> 7
      [] c = "8" -> 8 [] c = "9" -> 9

\* the number a non-empty string of digits denotes
DigitsValue(str) ==
    LET F[i \in 0..Len(str)] ==
            IF i = 0 THEN 0 ELSE 10 * F[i - 1] + DigitValue(str[i])
    IN  F[Len(str)]

IsDigits(str) == str # <<>> /\ \A i \in 1..Len(str) : str[i] \in Digits

(***************************************************************************)
(* PTMDB._initialize: one INSERT INTO mods per <mod> element of the file.  *)
(* A record of the catalog holds the attributes of the element, each None  *)
(* when the element does not carry it; the mass attributes hold the number *)
(* their text denotes.                                                     *)
(***************************************************************************)
\* evaluating the parameters of the INSERT raises: None.replace
\* (AttributeError) for a missing full_name, float(None) (TypeError) for a
\* missing mass
ParametersRaise(rec) ==
    \/ rec.full_name = None
    \/ rec.mono_mass = None
    \/ rec.avge_mass = None

MaxModId(table) ==
    IF table = <<>> THEN 0
    ELSE CHOOSE m \in {table[i].mod_id : i \in 1..Len(table)} :
             \A i \in 1..Len(table) : table[i].mod_id <= m

\* the value of the INTEGER PRIMARY KEY column mod_id for the parameter
\* record_id: NULL is replaced by the largest key in use plus one, text that
\* reads as an integer is converted
RowId(table, rec) ==
    IF rec.record_id = None THEN MaxModId(table) + 1
    ELSE DigitsValue(rec.record_id[1])

\* the INSERT raises sqlite3.IntegrityError: text that is no integer in the
\* INTEGER PRIMARY KEY column (datatype mismatch), or a key already in use
\* (UNIQUE constraint failed)
InsertRaises(table, rec) ==
    /\ rec.record_id # None
    /\ \/ ~IsDigits(rec.record_id[1])
       \/ \E i \in 1..Len(table) :
              table[i].mod_id = DigitsValue(rec.record_id[1])

\* the row the INSERT adds
ModRow(table, rec) ==
    [mod_id |-> RowId(table, rec),
     name |-> rec.title,
     full_name |-> lower(replace_spaces(rec.full_name[1])),
     mono_mass |-> rec.mono_mass[1],
     avg_mass |-> rec.avge_mass[1],
     composition |-> rec.composition]

(***************************************************************************)
(* The catalogs the model builds a PTMDB from: up to MaxCatalog of these   *)
(* records, in any order and with repetition.                              *)
(*   Ab16   a well-formed record                                           *)
(*   ab16   well-formed; its title is the normalized full name of Ab16 and *)
(*          its monoisotopic mass that of Ab16                             *)
(*   Ab17   well-formed attributes; the title of Ab16 again, and a count   *)
(*          in its composition that is no integer                          *)
(*   Bare   no record_id, no title and no composition; the full name of    *)
(*          Ab16 in another spelling                                       *)
(*   NoFull no full_name                                                   *)
(*   NoMono no mono_mass                                                   *)
(***************************************************************************)
Ab16 ==
    [record_id |-> Some(<<"1">>), title |-> Some(<<"A", "b">>),
     full_name |-> Some(<<"A", " ", "b">>),
     mono_mass |-> Some(16), avge_mass |-> Some(18),
     composition |-> Some(<<"H", "(", "2", ")", " ", "C", "(", "1", ")",
                            " ", "O", "(", "1", ")">>)]

ab16 ==
    [record_id |-> Some(<<"2">>), title |-> Some(<<"a", "b">>),
     full_name |-> Some(<<"B">>),
     mono_mass |-> Some(16), avge_mass |-> Some(17),
     composition |-> Some(<<"H", " ", "O", "(", "-", "1", ")">>)]

Ab17 ==
    [record_id |-> Some(<<"3">>), title |-> Some(<<"A", "b">>),
     full_name |-> Some(<<"B", " ", "b">>),
     mono_mass |-> Some(17), avge_mass |-> Some(17),
     composition |-> Some(<<"H", "(", "2", "-", "1", ")">>)]

Bare ==
    [record_id |-> None, title |-> None,
     full_name |-> Some(<<"a", " ", "B">>),
     mono_mass |-> Some(15), avge_mass |-> Some(15),
     composition |-> None]

NoFull ==
    [record_id |-> Some(<<"2">>), title |-> Some(<<"B">>),
     full_name |-> None,
     mono_mass |-> Some(16), avge_mass |-> Some(16),
     composition |-> Some(<<"O">>)]

NoMono ==
    [record_id |-> Some(<<"3">>), title |-> Some(<<"B">>),
     full_name |-> Some(<<"B">>),
     mono_mass |-> None, avge_mass |-> Some(16),
     composition |-> Some(<<"O">>)]

ModInputs == {Ab16, ab16, Ab17, Bare, NoFull, NoMono}

MaxCatalog == 2  \* most records in a catalog
MaxSteps == 4    \* most records in the catalog plus lookups on the index

\* no Spectrum is constructed
NoSpectrum ==
    /\ peaks = <<>>
    /\ call = Call("none", <<>>)
    /\ new_peaks = <<>>
    /\ denoised = <<>>
    /\ windows = <<>>
    /\ nset = 0
    /\ prec_mz = RInt(0)
    /\ charge = None
    /\ retention_time = None
    /\ denoised_slots = None

\* PTMDB.__init__ up to the call of _initialize, and the CREATE TABLE
\* statements of _initialize
InitPTMDB ==
    /\ catalog \in SeqsUpTo(ModInputs, MaxCatalog)
    /\ mods = <<>>
    /\ status = "building"
    /\ cache = EmptyCache
    /\ lookup = NoLookup
    /\ nlookups = 0
    /\ NoSpectrum
    /\ NoValidator

\* one iteration of the loop over the <mod> elements; an exception leaves
\* __init__, and no object is returned
InsertMod ==
    /\ status = "building"
    /\ Len(mods) < Len(catalog)
    /\ LET rec == catalog[Len(mods) + 1]
       IN  IF ParametersRaise(rec) \/ InsertRaises(mods, rec)
           THEN /\ status' = "failed"
                /\ mods' = mods
           ELSE /\ status' = status
                /\ mods' = Append(mods, ModRow(mods, rec))
    /\ UNCHANGED <<catalog, cache, lookup, nlookups>>
    /\ UNCHANGED <<spectrum_vars, validator_vars>>

\* self.conn.commit() after the loop; __init__ returns
Commit ==
    /\ status = "building"
    /\ Len(mods) = Len(catalog)
    /\ status' = "ready"
    /\ UNCHANGED <<catalog, mods, cache, lookup, nlookups>>
    /\ UNCHANGED <<spectrum_vars, validator_vars>>

(***************************************************************************)
(* The queries.  A SELECT without ORDER BY on mods returns its rows in     *)
(* rowid order, which is ascending mod_id (the INTEGER PRIMARY KEY is the  *)
(* rowid); fetchone() takes the first.                                     *)
(***************************************************************************)
\* the rows in the order they were inserted
insertion_order(table) == table

\* the rows in ascending mod_id order
table_order(table) ==
    [k \in 1..Len(table) |->
        table[CHOOSE i \in 1..Len(table) :
                  Cardinality({j \in 1..Len(table) :
                                   table[j].mod_id <= table[i].mod_id}) = k]]

\* cursor.fetchone() when the rows selected are those at the positions S
\* of scan: the first of them, None when there is none
fetchone(scan, S) ==
    IF S = {} THEN None
    ELSE Some(scan[CHOOSE i \in S : \A j \in S : i <= j])

MassTypes == {"mono", "avg"}

\* mass_col with the mass type ignored
mono_col(row, mass_type) == row.mono_mass

\* PTMDB._get_mass_col, applied to a row
mass_col(row, mass_type) ==
    IF mass_type = "mono" THEN row.mono_mass ELSE row.avg_mass

\* what a method call does: return a value or raise an exception
Returns(v) == [raises |-> "", result |-> v]

Raises(e) == [raises |-> e, result |-> None]

NotFound == Raises("ModificationNotFoundException")

\* PTMDB._get_row_by_name: Some(row), or None where it raises
\* ModificationNotFoundException
get_row_by_name(table, name) ==
    LET scan == table_order(table)
        res == fetchone(scan, {i \in 1..Len(scan) :
                                   scan[i].name = Some(name)})
    IN  IF res # None THEN res
        ELSE fetchone(scan, {i \in 1..Len(scan) :
                                 scan[i].full_name = lower(name)})

\* PTMDB.get_mass without its cache
get_mass(table, name, mass_type) ==
    LET row == get_row_by_name(table, name)
    IN  IF row = None THEN NotFound
        ELSE Returns(mass_col(row[1], mass_type))

\* PTMDB.get_by_id without its cache
get_by_id(table, ptm_id, mass_type) ==
    LET scan == table_order(table)
        res == fetchone(scan, {i \in 1..Len(scan) :
                                   scan[i].mod_id = ptm_id})
    IN  IF res = None THEN NotFound
        ELSE Returns(<<res[1].name, mass_col(res[1], mass_type)>>)

\* PTMDB.get_name without its cache; the name returned is None for a row
\* whose name is NULL
get_name(table, mass, mass_type, tol) ==
    LET scan == table_order(table)
        res == fetchone(scan, {i \in 1..Len(scan) :
                                   /\ mass - tol <= mass_col(scan[i], mass_type)
                                   /\ mass_col(scan[i], mass_type)
                                          <= mass + tol})
    IN  IF res = None THEN NotFound ELSE Returns(res[1].name)

(***************************************************************************)
(* PTMDB.formula_regex = (\w+)\(?([0-9-]+)?\)? and PTMDB.get_formula.      *)
(***************************************************************************)
CountChars == Digits \cup {"-"}

\* the last position of the longest run of characters of chars that
\* starts at position i of str; i - 1 when there is none
SpanEnd(str, i, chars) ==
    CHOOSE j \in (i - 1)..Len(str) :
        /\ \A k \in i..j : str[k] \in chars
        /\ j = Len(str) \/ str[j + 1] \notin chars

\* position i when the character after it is c, else i - 1: the end of an
\* optional c that starts at i
OptionalEnd(str, i, c) ==
    IF i <= Len(str) /\ str[i] = c THEN i ELSE i - 1

\* formula_regex.findall on the part of str from position i on: the pairs
\* (group 1, group 2) of the matches, group 2 empty where it took no part.
\* Every quantifier is greedy and everything after \w+ may match nothing,
\* so the first attempt at a position with a word character succeeds.
RECURSIVE findall(_, _)
findall(str, i) ==
    IF i > Len(str) THEN <<>>
    ELSE IF str[i] \notin WordChars THEN findall(str, i + 1)
    ELSE LET w == SpanEnd(str, i, WordChars)
             open == OptionalEnd(str, w + 1, "(")
             count == SpanEnd(str, open + 1, CountChars)
             close == OptionalEnd(str, count + 1, ")")
         IN  <<<<SubSeq(str, i, w), SubSeq(str, open + 1, count)>>>>
                 \o findall(str, close + 1)

\* int(v) is defined: an optional minus sign and digits
IsIntText(v) ==
    \/ IsDigits(v)
    \/ Len(v) >= 2 /\ v[1] = "-" /\ IsDigits(Tail(v))

\* int(v)
IntOfText(v) ==
    IF v[1] = "-" THEN -DigitsValue(Tail(v)) ELSE DigitsValue(v)

\* {k: int(v) if v else 1 for k, v in matches}: ValueError where a count
\* is no integer, else the dict, a later pair of a key replacing an earlier
FormulaDict(matches) ==
    IF \E m \in 1..Len(matches) :
           matches[m][2] # <<>> /\ ~IsIntText(matches[m][2])
    THEN Raises("ValueError")
    ELSE Returns([k \in {matches[m][1] : m \in 1..Len(matches)} |->
                     LET last == CHOOSE m \in 1..Len(matches) :
                                     /\ matches[m][1] = k
                                     /\ \A n \in (m + 1)..Len(matches) :
                                            matches[n][1] # k
                     IN  IF matches[last][2] = <<>> THEN 1
                         ELSE IntOfText(matches[last][2])])

\* PTMDB.get_formula without its cache; findall(None) raises TypeError
get_formula(table, name) ==
    LET row == get_row_by_name(table, name)
    IN  IF row = None THEN NotFound
        ELSE IF row[1].composition = None THEN Raises("TypeError")
        ELSE FormulaDict(findall(row[1].composition[1], 1))

(***************************************************************************)
(* functools.lru_cache() around get_mass, get_by_id, get_formula and       *)
(* get_name: each method has a cache of its own, keyed by the arguments of *)
(* the call, that holds the maxsize most recently used results.  The       *)
(* default maxsize of lru_cache() is 128; the model scales it down to      *)
(* maxsize, below the number of argument tuples a method is called with.   *)
(* An exception is not cached.                                             *)
(***************************************************************************)
maxsize == 1

\* the positions of key in the cache entries <<key, result>>
CachedAt(entries, key) == {i \in 1..Len(entries) : entries[i][1] = key}

\* the cache after a hit at position i: the entry becomes the most recent
CacheHit(entries, i) == <<entries[i]>> \o RemoveAt(entries, i)

\* the cache after a miss that returned result: the new entry is the most
\* recent, and the least recent one is dropped from a full cache
CacheMiss(entries, key, result) ==
    SubSeq(<<<<key, result>>>> \o entries, 1,
           Min(maxsize, Len(entries) + 1))

\* a call of the memoized method f with the arguments key, where the
\* method itself does outcome
Lookup(f, key, outcome) ==
    /\ status = "ready"
    /\ Len(catalog) + nlookups < MaxSteps
    /\ nlookups' = nlookups + 1
    /\ IF CachedAt(cache[f], key) # {}
       THEN LET i == CHOOSE i \in CachedAt(cache[f], key) : TRUE
            IN  /\ cache' = [cache EXCEPT ![f] = CacheHit(@, i)]
                /\ lookup' = [op |-> f, key |-> key, raises |-> "",
                              result |-> cache[f][i][2], hit |-> TRUE]
       ELSE /\ cache' = IF outcome.raises # "" THEN cache
                        ELSE [cache EXCEPT
                                  ![f] = CacheMiss(@, key, outcome.result)]
            /\ lookup' = [op |-> f, key |-> key, raises |-> outcome.raises,
                          result |-> outcome.result, hit |-> FALSE]
    /\ UNCHANGED <<catalog, mods, status>>
    /\ UNCHANGED <<spectrum_vars, validator_vars>>

\* the arguments the methods are called with
NameInputs == {<<"A", "b">>, <<"A", " ", "b">>, <<"a", "b">>}

MassInputs == {15, 16}

MassTolInputs == {0, 1}

IdInputs == {1, 2}

\* the mass the caller has just got from get_mass
LastMass ==
    IF lookup.op = "get_mass" /\ lookup.raises = "" THEN {lookup.result}
    ELSE {}

GetMass ==
    \E name \in NameInputs, mass_type \in MassTypes :
        Lookup("get_mass", <<name, mass_type>>,
               get_mass(mods, name, mass_type))

GetById ==
    \E ptm_id \in IdInputs, mass_type \in MassTypes :
        Lookup("get_by_id", <<ptm_id, mass_type>>,
               get_by_id(mods, ptm_id, mass_type))

GetFormula ==
    \E name \in NameInputs :
        Lookup("get_formula", <<name>>, get_formula(mods, name))

GetName ==
    \E mass \in MassInputs \cup LastMass, mass_type \in MassTypes,
       tol \in MassTolInputs :
        Lookup("get_name", <<mass, mass_type, tol>>,
               get_name(mods, mass, mass_type, tol))

NextPTMDB ==
    \/ InsertMod
    \/ Commit
    \/ GetMass
    \/ GetById
    \/ GetFormula
    \/ GetName

SpecPTMDB == InitPTMDB /\ [][NextPTMDB]_vars

(***************************************************************************)
(* Validator._results_to_unmod_psms (validator.py).  A search result is a  *)
(* record [seq, mods, pep_type, spectrum, charge]; seq is a sequence of    *)
(* one-letter residues, mods a sequence of [mod, site], and a site is      *)
(* [kind |-> "int", pos |-> n] for an integer position or                  *)
(* [kind |-> "nterm", pos |-> 0] for a terminal (non-integer) site.        *)
(***************************************************************************)

\* constants.RESIDUES: the valid amino acid letters (three of them here).
RESIDUES == {"A", "C", "K"}

\* self.config.target_residue
target_residue == "K"

\* The configured bounds of _valid_peptide_length.
min_peptide_length == 2

max_peptide_length == 3

\* readers.PeptideType
PeptideType == {"normal", "decoy"}

Chars(seq) == {seq[i] : i \in 1..Len(seq)}

\* pathway_base: whether the sequence contains the target residue.
has_target_residue(seq) == target_residue \in Chars(seq)

\* pathway_base: whether the sequence length is within the configured bounds.
valid_peptide_length(seq) ==
    /\ min_peptide_length <= Len(seq)
    /\ Len(seq) <= max_peptide_length

\* isinstance(mod.site, int)
IsIntSite(site) == site.kind = "int"

\* The condition of the inner loop's break (lines 470-473).
ModBreaks(ident, mod, allowed_mods) ==
    \/ mod.mod \notin allowed_mods
    \/ /\ IsIntSite(mod.site)
       /\ ident.seq[mod.site.pos] = target_residue

\* The inner for loop ends in a break (for ... else, lines 469-475).
ModsBreak(ident, allowed_mods) ==
    \E k \in 1..Len(ident.mods) : ModBreaks(ident, ident.mods[k], allowed_mods)

\* PSM(data_id, ident.spectrum, Peptide(seq, charge, mods), target=...)
PSM(data_id, ident) ==
    [data_id |-> data_id,
     spectrum |-> ident.spectrum,
     seq |-> ident.seq,
     charge |-> ident.charge,
     mods |-> ident.mods,
     target |-> (ident.pep_type = "normal")]

\* One identification passes every filter of the loop body (lines 466-476).
Keeps(ident, allowed_mods) ==
    /\ ~(~has_target_residue(ident.seq) \/ ~(Chars(ident.seq) \subseteq RESIDUES))
    /\ ~ModsBreak(ident, allowed_mods)
    /\ valid_peptide_length(ident.seq)

RECURSIVE results_to_unmod_psms(_, _, _)
results_to_unmod_psms(search_res, data_id, allowed_mods) ==
    IF search_res = <<>> THEN <<>>
    ELSE LET ident == Head(search_res)
             rest == results_to_unmod_psms(Tail(search_res), data_id,
                                           allowed_mods)
         IN  IF Keeps(ident, allowed_mods)
             THEN <<PSM(data_id, ident)>> \o rest
             ELSE rest

SeqInputs ==
    {<<"A", "K">>, <<"A", "A">>, <<"K">>, <<"K", "X">>, <<"C", "A", "K">>}

Carbamidomethyl(site) == [mod |-> "Carbamidomethyl", site |-> site]

Oxidation(site) == [mod |-> "Oxidation", site |-> site]

IntSite(n) == [kind |-> "int", pos |-> n]

NTerm == [kind |-> "nterm", pos |-> 0]

ModsInputs ==
    {<<>>,
     <<Carbamidomethyl(IntSite(1))>>,
     <<Carbamidomethyl(IntSite(2))>>,
     <<Carbamidomethyl(NTerm)>>,
     <<Oxidation(IntSite(1))>>,
     <<Carbamidomethyl(IntSite(1)), Oxidation(NTerm)>>}

MaxResults == 2

\* The search results a reader can yield: every integer site of a
\* modification lies within the sequence.
IdentInputs ==
    {ident \in [seq : SeqInputs,
                mods : ModsInputs,
                pep_type : PeptideType,
                spectrum : {"s1"},
                charge : {2}] :
        \A k \in 1..Len(ident.mods) :
            IsIntSite(ident.mods[k].site)
                => ident.mods[k].site.pos <= Len(ident.seq)}

AllowedModsInputs == {{}, {"Carbamidomethyl"}}

InitValidator ==
    /\ vcall = NoVCall
    /\ psms = <<>>
    /\ NoSpectrum
    /\ NoPTMDB

\* Each call fills a container of its own (line 464).
ResultsToUnmodPsms ==
    \E search_res \in SeqsUpTo(IdentInputs, MaxResults),
       allowed_mods \in AllowedModsInputs :
        /\ vcall.op = "none"
        /\ vcall' = [op |-> "_results_to_unmod_psms",
                     search_res |-> search_res,
                     allowed_mods |-> allowed_mods]
        /\ psms' = results_to_unmod_psms(search_res, "d1", allowed_mods)
        /\ UNCHANGED <<spectrum_vars, ptmdb_vars>>

\* return psms (line 486): the caller takes the container
ReturnPsms ==
    /\ vcall.op # "none"
    /\ vcall' = NoVCall
    /\ psms' = <<>>
    /\ UNCHANGED <<spectrum_vars, ptmdb_vars>>

NextValidator ==
    \/ ResultsToUnmodPsms
    \/ ReturnPsms

SpecValidator == InitValidator /\ [][NextValidator]_vars

(***************************************************************************)
(* Vocabulary of the properties.                                           *)
(***************************************************************************)
IsSorted(p) == \A i \in 1..(Len(p) - 1) : RLe(p[i][1], p[i + 1][1])

Count(s, x) == Cardinality({i \in 1..Len(s) : s[i] = x})

SameBag(s, t) ==
    /\ Len(s) = Len(t)
    /\ \A i \in 1..Len(s) : Count(s, s[i]) = Count(t, s[i])

Indices(p) == 0..(Len(p) - 1)

MinMz(p) == CHOOSE m \in {p[i][1] : i \in 1..Len(p)} :
                \A i \in 1..Len(p) : RLe(m, p[i][1])

\* the indices of the peaks in the 100 Da window number w counted from the
\* minimum m/z: the first window holds its lower edge, every window holds
\* its upper edge
InWindow(p, w) ==
    LET lo == RAdd(MinMz(p), RInt(w * WindowWidth))
        hi == RAdd(lo, RInt(WindowWidth))
    IN  {i \in Indices(p) :
            /\ IF w = 0 THEN RLe(lo, p[i + 1][1]) ELSE RLt(lo, p[i + 1][1])
            /\ RLe(p[i + 1][1], hi)}

\* the windows the range from the minimum to the maximum m/z is cut into
WindowNumbers(p) == 0..(n_windows(p) - 1)

\* the place of peak i in the ranking of the peaks S by descending
\* intensity, peaks of equal intensity in ascending index order
RankIn(p, S, i) ==
    1 + Cardinality({j \in S : \/ RLt(p[i + 1][2], p[j + 1][2])
                               \/ p[j + 1][2] = p[i + 1][2] /\ j < i})

TopK(p, S, k) == {i \in S : RankIn(p, S, i) <= k}

Annotated(assigned, S) == Cardinality({i \in S : assigned[i + 1]})

\* the smallest k in 1..min(|S|, m) whose top-k holds the most annotated peaks
BestK(p, assigned, S, m) ==
    LET ks == 1..Min(Cardinality(S), m)
    IN  CHOOSE k \in ks :
            /\ \A j \in ks : Annotated(assigned, TopK(p, S, j))
                                 <= Annotated(assigned, TopK(p, S, k))
            /\ \A j \in ks : j < k =>
                   Annotated(assigned, TopK(p, S, j))
                       < Annotated(assigned, TopK(p, S, k))

SeqSet(s) == {s[k] : k \in 1..Len(s)}

\* a completed denoise call on a spectrum whose peaks are in m/z order
DenoisedSorted == call.op = "denoise" /\ IsSorted(call.pre)

\* the peaks an iteration of the window loop looks at as the peaks of its
\* window
Considered(p, step) ==
    IF step.ranked THEN step.start_idx..(step.end_idx - 1)
    ELSE IF RLe(p[step.end_idx + 1][1], step.max_mass)
         THEN {step.end_idx} ELSE {}

(***************************************************************************)
(* C1.  The peaks of a Spectrum, and of the Spectrum returned by denoise,  *)
(* are in ascending m/z order in every reachable state: after             *)
(* construction and after any sequence of normalize, centroid,             *)
(* remove_itraq, item assignment and denoise.                              *)
(***************************************************************************)
C1_PeaksAlwaysSorted == IsSorted(peaks) /\ IsSorted(denoised)

(***************************************************************************)
(* C2.  Constructing a Spectrum from n >= 1 rows of (mz, intensity), in    *)
(* the peaks x 2 layout or in the 2 x peaks layout, gives a spectrum of n  *)
(* peaks whose (mz, intensity) pairs are the rows, in m/z order.           *)
(***************************************************************************)
C2_ConstructKeepsRows ==
    (call.op = "init" /\ Len(call.rows) >= 1) =>
        /\ Len(peaks) = Len(call.rows)
        /\ SameBag(peaks, call.rows)
        /\ peaks \in mz_sort(call.rows)

(***************************************************************************)
(* C3.  denoise looks at every peak in exactly one window, and the peaks   *)
(* it looks at in a window are exactly the peaks whose m/z lies in that    *)
(* 100 Da window, the peak of highest m/z included.                        *)
(***************************************************************************)
C3_WindowsPartitionPeaks ==
    DenoisedSorted =>
        /\ \A i \in Indices(call.pre) :
               Cardinality({k \in 1..Len(windows) :
                                i \in Considered(call.pre, windows[k])}) = 1
        /\ \A k \in 1..Len(windows) :
               Considered(call.pre, windows[k])
                   = InWindow(call.pre, windows[k].window)

(***************************************************************************)
(* C4.  For every 100 Da window, the retained indices whose m/z lies in    *)
(* the window are at most max_peaks_per_window, and no prefix of the       *)
(* window's descending-intensity ranking that has as many peaks or fewer   *)
(* holds more annotated peaks than the retained ones.                      *)
(***************************************************************************)
C4_WindowBudgetAndOptimality ==
    DenoisedSorted =>
        \A w \in WindowNumbers(call.pre) :
            LET S == InWindow(call.pre, w)
                kept == {k \in 1..Len(new_peaks) : new_peaks[k] \in S}
                retained == {new_peaks[k] : k \in kept}
            IN  /\ Cardinality(kept) <= call.max_peaks_per_window
                /\ \A j \in 0..Cardinality(kept) :
                       Annotated(call.assigned_peaks, TopK(call.pre, S, j))
                           <= Annotated(call.assigned_peaks, retained)

(***************************************************************************)
(* C5.  In a window with more than one peak, the retained peaks of the     *)
(* window are exactly the top k of its descending-intensity ranking (equal *)
(* intensities in ascending index order), k the smallest value in          *)
(* 1..min(window size, max_peaks_per_window) that maximizes the number of  *)
(* annotated peaks among the top k.                                        *)
(***************************************************************************)
C5_RetainedIsBestPrefix ==
    DenoisedSorted =>
        \A w \in WindowNumbers(call.pre) :
            LET S == InWindow(call.pre, w)
            IN  Cardinality(S) > 1 =>
                    SeqSet(new_peaks) \cap S
                        = TopK(call.pre, S,
                               BestK(call.pre, call.assigned_peaks, S,
                                     call.max_peaks_per_window))

(***************************************************************************)
(* C6.  In a window that holds exactly one peak, the peak is retained if   *)
(* and only if it is annotated; the iteration of a window that holds no    *)
(* peak retains nothing and leaves the start of the next window's scan     *)
(* where it was.                                                           *)
(***************************************************************************)
C6_SparseWindows ==
    DenoisedSorted =>
        \A w \in WindowNumbers(call.pre) :
            LET S == InWindow(call.pre, w)
            IN  /\ Cardinality(S) = 1 =>
                       \A i \in S : (i \in SeqSet(new_peaks))
                                        <=> call.assigned_peaks[i + 1]
                /\ S = {} =>
                       /\ windows[w + 1].kept = <<>>
                       /\ windows[w + 1].next_start = windows[w + 1].start_idx

(***************************************************************************)
(* C7.  The index list returned by denoise holds valid indices of the      *)
(* spectrum, each at most once.                                            *)
(***************************************************************************)
C7_IndicesAreASet ==
    DenoisedSorted =>
        /\ \A k \in 1..Len(new_peaks) : new_peaks[k] \in Indices(call.pre)
        /\ \A j, k \in 1..Len(new_peaks) :
               new_peaks[j] = new_peaks[k] => j = k

(***************************************************************************)
(* C8.  The Spectrum returned by denoise has as many peaks as indices were *)
(* retained, its (mz, intensity) pairs are the pairs of the spectrum at    *)
(* those indices, and they are in ascending m/z order.                     *)
(***************************************************************************)
RetainedRows == [k \in 1..Len(new_peaks) |-> call.pre[new_peaks[k] + 1]]

C8_DenoisedIsRetainedPeaks ==
    DenoisedSorted =>
        /\ Len(denoised) = Len(new_peaks)
        /\ SameBag(denoised, RetainedRows)
        /\ IsSorted(denoised)

(***************************************************************************)
(* C9.  centroid replaces every maximal run of consecutive peaks whose     *)
(* adjacent m/z gaps are all <= 0.1 (a gap of exactly 0.1 included) by one *)
(* peak: the mean m/z with the common intensity when all intensities of    *)
(* the run are equal, otherwise the first peak of the run, in the order    *)
(* the peaks are held in, that has the run's largest intensity.  A peak in *)
(* no such run is emitted unchanged, and the output is in input order.     *)
(***************************************************************************)
\* peaks i and i + 1 (positions in the sequence) are at most 0.1 apart
Close(p, i) == RLe(RSub(p[i + 1][1], p[i][1]), Rat(1, 10))

\* the positions at which a maximal run starts; a peak that is close to
\* neither neighbour is a run of its own
RunStarts(p) == {i \in 1..Len(p) : i = 1 \/ ~Close(p, i - 1)}

RunEnd(p, s) ==
    CHOOSE e \in s..Len(p) :
        /\ \A i \in s..(e - 1) : Close(p, i)
        /\ e = Len(p) \/ ~Close(p, e)

\* the start of the k-th run
NthStart(p, k) ==
    CHOOSE s \in RunStarts(p) :
        Cardinality({t \in RunStarts(p) : t <= s}) = k

\* out is the peak that stands for the run s..e of p
StandsFor(p, s, e, out) ==
    IF \A i \in s..e : p[i][2] = p[s][2]
    THEN /\ out[2] = p[s][2]
         /\ RMul(out[1], RInt(e - s + 1)) = RSum([i \in 1..(e - s + 1) |->
                                                     p[s + i - 1][1]])
    ELSE \E j \in s..e :
            /\ out = p[j]
            /\ \A i \in s..e : RLe(p[i][2], p[j][2])
            /\ \A i \in s..(j - 1) : RLt(p[i][2], p[j][2])

C10_CentroidIdempotent ==
    [][call'.op = "centroid" =>
           /\ Len(peaks') <= Len(call'.pre)
           /\ call.op = "centroid" => peaks' = peaks]_vars

(***************************************************************************)
(* C11.  remove_itraq(tol) keeps exactly the peaks whose m/z is farther    *)
(* than tol from every reporter mass: a peak at exactly tol from a         *)
(* reporter mass is removed, and the kept peaks keep their (mz, intensity) *)
(* values and their order.                                                 *)
(***************************************************************************)
\* the positions of the peaks of p strictly farther than tol from every
\* reporter mass
FarPositions(p, tol) ==
    {i \in 1..Len(p) :
        \A r \in ITRAQ_MASSES :
            LET d == RSub(p[i][1], r)
            IN  RLt(tol, d) \/ RLt(d, RSub(RInt(0), tol))}

\* the k-th smallest element of the set S of numbers
NthOf(S, k) == CHOOSE x \in S : Cardinality({y \in S : y <= x}) = k

C11_RemoveItraqKeepsFarPeaks ==
    call.op = "remove_itraq" =>
        LET far == FarPositions(call.pre, call.tol)
        IN  /\ Len(peaks) = Cardinality(far)
            /\ \A k \in 1..Len(peaks) : peaks[k] = call.pre[NthOf(far, k)]

\* remove_itraq(0.1) has removed a peak at 114.0, exactly 0.1 below the
\* reporter mass 114.1, and kept two other peaks in their order
C11_Witness ==
    /\ call.op = "remove_itraq"
    /\ call.tol = Rat(1, 10)
    /\ Len(call.pre) = 3
    /\ call.pre[2][1] = RInt(114)
    /\ peaks = <<call.pre[1], call.pre[3]>>

(***************************************************************************)
(* C12.  normalize on a spectrum with peaks and a positive maximum         *)
(* intensity divides every intensity by the maximum: the maximum becomes   *)
(* 1, the ratio of any two intensities stays what it was, m/z values and   *)
(* the order of the peaks stay.  On a spectrum without peaks normalize and *)
(* max_intensity raise and return nothing.                                 *)
(***************************************************************************)
\* m is the largest intensity of p
IsMaxIntensity(p, m) ==
    /\ \E i \in 1..Len(p) : p[i][2] = m
    /\ \A i \in 1..Len(p) : RLe(p[i][2], m)

C12_NormalizeToBasePeak ==
    /\ call.op = "normalize" =>
           IF call.pre = <<>> THEN call.raises /\ peaks = call.pre
           ELSE \A m \in {call.pre[i][2] : i \in 1..Len(call.pre)} :
                    (IsMaxIntensity(call.pre, m) /\ RLt(RInt(0), m)) =>
                        /\ ~call.raises
                        /\ Len(peaks) = Len(call.pre)
                        /\ IsMaxIntensity(peaks, RInt(1))
                        /\ \A i \in 1..Len(peaks) :
                               /\ peaks[i][1] = call.pre[i][1]
                               /\ RMul(peaks[i][2], m) = call.pre[i][2]
                        /\ \A i, j \in 1..Len(peaks) :
                               RMul(peaks[i][2], call.pre[j][2])
                                   = RMul(peaks[j][2], call.pre[i][2])
    /\ call.op = "max_intensity" =>
           IF call.pre = <<>> THEN call.raises
           ELSE ~call.raises /\ IsMaxIntensity(call.pre, call.result)

\* normalize has halved the intensity of a peak below the base peak
C12_Witness ==
    /\ call.op = "normalize"
    /\ Len(call.pre) = 3
    /\ call.pre[1][2] = RInt(1)
    /\ call.pre[2][2] = RInt(2)
    /\ peaks[1][2] = Rat(1, 2)
    /\ peaks[2][2] = RInt(1)

\* normalize has raised on a spectrum all peaks of which remove_itraq took
C12_EmptyRaises ==
    call.op = "normalize" /\ call.pre = <<>> /\ call.raises

(***************************************************************************)
(* Vocabulary of the PTMDB properties.                                     *)
(***************************************************************************)
\* a record that lacks an attribute
Malformed(rec) ==
    \/ rec.record_id = None
    \/ rec.title = None
    \/ rec.full_name = None
    \/ rec.mono_mass = None
    \/ rec.avge_mass = None
    \/ rec.composition = None

\* every record of the catalog carries all its attributes
WellFormed == \A i \in 1..Len(catalog) : ~Malformed(catalog[i])

\* a name in the form the index stores full names in: lowercased, spaces
\* removed
Normalized(str) == lower(replace_spaces(str))

\* the mass of a row that a mass type selects
SelectedMass(row, t) == IF t = "mono" THEN row.mono_mass ELSE row.avg_mass

RowsNamed(name) == {i \in 1..Len(mods) : mods[i].name = Some(name)}

RowsFullNamed(name) ==
    {i \in 1..Len(mods) : mods[i].full_name = Normalized(name)}

\* the rows whose mass of type t lies in [mass - tol, mass + tol]
RowsInRange(mass, t, tol) ==
    {i \in 1..Len(mods) : /\ mass - tol <= SelectedMass(mods[i], t)
                          /\ SelectedMass(mods[i], t) <= mass + tol}

\* row i is the first of the rows S in table order
FirstById(S, i) == i \in S /\ \A j \in S : mods[i].mod_id <= mods[j].mod_id

(***************************************************************************)
(* C13.  get_mass(name, mass_type) returns the mass of a modification      *)
(* whose name is the argument; when there is none, the mass of a           *)
(* modification whose normalized full name is the normalized argument      *)
(* (lowercased, spaces removed); it raises ModificationNotFoundException   *)
(* exactly when there is neither.  Stated for the catalogs all records of  *)
(* which are well-formed.                                                  *)
(***************************************************************************)
C13_GetMassByNameThenFullName ==
    (lookup.op = "get_mass" /\ WellFormed) =>
        LET name == lookup.key[1]
            t == lookup.key[2]
            found == IF RowsNamed(name) # {} THEN RowsNamed(name)
                     ELSE RowsFullNamed(name)
        IN  IF found = {}
            THEN lookup.raises = "ModificationNotFoundException"
            ELSE /\ lookup.raises = ""
                 /\ \E i \in found :
                        lookup.result = SelectedMass(mods[i], t)

(***************************************************************************)
(* C14.  get_name(mass, mass_type, tol) returns the name of the first      *)
(* modification in ascending mod_id order whose mass of the given type m   *)
(* satisfies mass - tol <= m <= mass + tol, and raises                     *)
(* ModificationNotFoundException exactly when no modification has.         *)
(***************************************************************************)
C14_GetNameFirstInRange ==
    lookup.op = "get_name" =>
        LET S == RowsInRange(lookup.key[1], lookup.key[2], lookup.key[3])
        IN  IF S = {}
            THEN lookup.raises = "ModificationNotFoundException"
            ELSE /\ lookup.raises = ""
                 /\ \E i \in S : FirstById(S, i)
                                     /\ lookup.result = mods[i].name

\* get_name(15, mono, 1) has returned the name of the modification of
\* mod_id 1, which was inserted after the modification of mod_id 2 of
\* another name; both have the mass 16 = 15 + 1, on the upper bound
C14_Witness ==
    /\ lookup.op = "get_name"
    /\ lookup.key = <<15, "mono", 1>>
    /\ Len(mods) = 2
    /\ mods[1].mod_id = 2 /\ mods[1].mono_mass = 16
    /\ mods[2].mod_id = 1 /\ mods[2].mono_mass = 16
    /\ mods[1].name # mods[2].name
    /\ lookup.result = mods[2].name

(***************************************************************************)
(* C15.  Round trip.  As claimed: for a name n of the index, a mass type t *)
(* and tol >= 0, get_name(get_mass(n, t), t, tol) returns n.  Stated for   *)
(* the catalogs all records of which are well-formed.                      *)
(***************************************************************************)
\* this step is get_name(m, t, tol) with tol >= 0, for the mass m that
\* get_mass(n, t) has just returned for a name n of the index
RoundTripStep ==
    /\ lookup.op = "get_mass"
    /\ lookup.raises = ""
    /\ RowsNamed(lookup.key[1]) # {}
    /\ lookup'.op = "get_name"
    /\ lookup'.key[1] = lookup.result
    /\ lookup'.key[2] = lookup.key[2]
    /\ lookup'.key[3] >= 0
    /\ nlookups' = nlookups + 1

C15_RoundTrip ==
    [][(RoundTripStep /\ WellFormed) =>
           lookup'.raises = "" /\ lookup'.result = Some(lookup.key[1])]_vars

(***************************************************************************)
(* C15 as amended.  get_name(get_mass(n, t), t, tol) returns the name of   *)
(* the first modification in ascending mod_id order whose mass of type t   *)
(* is within tol of the mass of n; this is n whenever a modification named *)
(* n is the first of them.  It never raises.                               *)
(***************************************************************************)
C15_RoundTripToFirstInRange ==
    [][RoundTripStep =>
           LET n == lookup.key[1]
               S == RowsInRange(lookup.result, lookup.key[2], lookup'.key[3])
           IN  /\ lookup'.raises = ""
               /\ \E i \in S : FirstById(S, i)
                                   /\ lookup'.result = mods[i].name
               /\ (\E i \in RowsNamed(n) : FirstById(S, i))
                      => lookup'.result = Some(n)]_vars

\* get_name(17, avg, 1) was called with the average mass 17 that get_mass
\* returned for the name of the modification of mod_id 2 (17 is no mass a
\* caller passes otherwise) and has returned the name of the modification
\* of mod_id 1, whose average mass 18 is within 1 of it
C15_Witness ==
    /\ lookup.op = "get_name"
    /\ lookup.key = <<17, "avg", 1>>
    /\ ~lookup.hit
    /\ \E i, j \in 1..Len(mods) :
           /\ mods[i].mod_id = 1 /\ mods[i].avg_mass = 18
           /\ mods[j].mod_id = 2 /\ mods[j].avg_mass = 17
           /\ mods[i].name # mods[j].name
           /\ lookup.result = mods[i].name

(***************************************************************************)
(* C16.  In the index of a completed build no two modifications have the   *)
(* same mod_id, the same name or the same normalized full name.  Stated    *)
(* for the catalogs all records of which are well-formed.                  *)
(***************************************************************************)
C16_KeysAreUnique ==
    (status = "ready" /\ WellFormed) =>
        \A i, j \in 1..Len(mods) :
            i # j =>
                /\ mods[i].mod_id # mods[j].mod_id
                /\ mods[i].name # mods[j].name
                /\ mods[i].full_name # mods[j].full_name

(***************************************************************************)
(* C17.  The build is fail-fast.  A catalog with a record that lacks its   *)
(* numeric id, short name, full name, monoisotopic mass, average mass or   *)
(* composition never yields a PTMDB, and a lookup runs only on an index    *)
(* that holds the whole catalog.                                           *)
(***************************************************************************)
C17_BuildIsFailFast ==
    /\ status = "ready" =>
           \A i \in 1..Len(catalog) : ~Malformed(catalog[i])
    /\ lookup.op # "none" =>
           status = "ready" /\ Len(mods) = Len(catalog)

(***************************************************************************)
(* C18.  Memoization never evicts: a result a lookup has returned stays in *)
(* the cache of its method whatever lookups follow, and a call with        *)
(* arguments that are in the cache is served from it with the same result. *)
(***************************************************************************)
Methods == {"get_mass", "get_by_id", "get_formula", "get_name"}

C18_CacheNeverEvicts ==
    [][/\ \A f \in Methods :
              \A i \in 1..Len(cache[f]) :
                  \E j \in 1..Len(cache'[f]) : cache'[f][j] = cache[f][i]
       /\ (nlookups' = nlookups + 1 /\ lookup'.raises = "") =>
              /\ \E j \in 1..Len(cache'[lookup'.op]) :
                     cache'[lookup'.op][j] = <<lookup'.key, lookup'.result>>
              /\ lookup'.hit <=>
                     \E i \in 1..Len(cache[lookup'.op]) :
                         cache[lookup'.op][i][1] = lookup'.key]_vars

(***************************************************************************)
(* C19.  get_formula(name) parses every composition string stored in the   *)
(* index without failing, into a mapping from element tokens to integer    *)
(* counts: "H(2) C(1) O(1)" gives H 2, C 1, O 1, and a token without a     *)
(* count gets 1.  Stated for the catalogs all records of which are         *)
(* well-formed, and for the names the index resolves.                      *)
(***************************************************************************)
C19_FormulaAlwaysParses ==
    (lookup.op = "get_formula" /\ WellFormed
         /\ lookup.raises # "ModificationNotFoundException") =>
        /\ lookup.raises = ""
        /\ \A k \in DOMAIN lookup.result : lookup.result[k] \in Int
        /\ \A i \in 1..Len(mods) :
               (RowsNamed(lookup.key[1]) = {i}
                    /\ mods[i].composition = Ab16.composition) =>
                   lookup.result = (<<"H">> :> 2) @@ (<<"C">> :> 1)
                                       @@ (<<"O">> :> 1)

(***************************************************************************)
(* Vocabulary of the Validator properties.                                 *)
(***************************************************************************)
\* The PSM was made from this search result.
MadeFrom(psm, ident) ==
    /\ psm.spectrum = ident.spectrum
    /\ psm.seq = ident.seq
    /\ psm.charge = ident.charge
    /\ psm.mods = ident.mods
    /\ psm.target = (ident.pep_type = "normal")

\* Every modification is allowed and none sits on a target-residue site.
ModsAllowedOffTarget(ident, allowed_mods) ==
    \A k \in 1..Len(ident.mods) :
        /\ ident.mods[k].mod \in allowed_mods
        /\ IsIntSite(ident.mods[k].site)
               => ident.seq[ident.mods[k].site.pos] # target_residue

\* The filters on residues, length and modifications that C20 lists.
PassesSequenceFilters(ident, allowed_mods) ==
    /\ target_residue \in Chars(ident.seq)
    /\ Chars(ident.seq) \subseteq RESIDUES
    /\ min_peptide_length <= Len(ident.seq)
    /\ Len(ident.seq) <= max_peptide_length
    /\ ModsAllowedOffTarget(ident, allowed_mods)

\* C20: _results_to_unmod_psms keeps only target identifications: every PSM
\* of the returned container comes from a search result whose peptide type
\* is not decoy, whose sequence contains the target residue, uses only
\* valid residues and has a valid length, and whose modifications are all
\* in allowed_mods and sit on no target-residue site.
C20_OnlyTargetsKept ==
    vcall.op = "_results_to_unmod_psms" =>
        \A k \in 1..Len(psms) :
            \E i \in 1..Len(vcall.search_res) :
                /\ MadeFrom(psms[k], vcall.search_res[i])
                /\ vcall.search_res[i].pep_type # "decoy"
                /\ PassesSequenceFilters(vcall.search_res[i],
                                         vcall.allowed_mods)

(***************************************************************************)
(* Vocabulary of the property of the slots.                                *)
(***************************************************************************)
\* a step in which denoise runs and returns
DenoiseStep == call.op = "none" /\ call'.op = "denoise"

\* C21: denoise does not modify the spectrum it is called on: its peaks,
\* prec_mz, charge and retention_time are the same after the call; and the
\* Spectrum it returns has the prec_mz and the charge of the receiver and
\* retention_time None, whatever the retention time of the receiver.
C21_DenoiseFrame ==
    [][DenoiseStep =>
          /\ peaks' = peaks
          /\ prec_mz' = prec_mz
          /\ charge' = charge
          /\ retention_time' = retention_time
          /\ denoised_slots' # None
          /\ denoised_slots'[1].prec_mz = prec_mz
          /\ denoised_slots'[1].charge = charge
          /\ denoised_slots'[1].retention_time = None]_vars

\* denoise has returned on a Spectrum of two or more peaks that has a
\* retention time and a charge, after an item assignment
C21_Witness ==
    /\ call.op = "denoise"
    /\ Len(peaks) >= 2
    /\ nset >= 1
    /\ retention_time # None
    /\ charge # None
    /\ denoised_slots # None
    /\ Len(denoised) >= 1

====
